---- MODULE Spec2Model ----
(***************************************************************************)
(* flagfx: flag definitions co-located with fx components.                 *)
(*                                                                         *)
(* Provide splits every constructor into a capture provider (fn1) and a    *)
(* release provider (fn2) that share an *entry.  parse is the barrier: it  *)
(* calls the original constructor of every collected entry, then parses    *)
(* the command line once, and hands out the *parsed object the release     *)
(* providers read from.  The fx container is modelled by its contract:     *)
(* a provider is called at most once, only when everything it takes is     *)
(* available, and a provider that returned an error provides nothing.      *)
(***************************************************************************)
EXTENDS Integers, Sequences, FiniteSets, TLC

VARIABLES
  phase,      \* "build" (options being assembled), "run" (fx.New resolving), "failed", "panicked"
  given,      \* the argument list of every Provide call made, in order
  returned,   \* the fx.Option list every Provide call returned, in order
  entry,      \* the heap of *entry objects: id -> [fn, args]
  group,      \* the value group "flagfx_entries": entries returned by their fn1
  fs,         \* the *flag.FlagSet: [formal : name -> [ptr, kind], parsed : BOOLEAN]
  heap,       \* the flag structs the constructors allocated: ptr -> field value
  args,       \* the Arguments handed to parse
  barrier,    \* outcome of parse: "idle", "ok", "err", "panic"
  parsed,     \* the *parsed object parse returned: [entries : id -> outputs]
  released,   \* id -> the values fn2 returned to the container
  seen,       \* what the invoked consumer read: [invoked, field : id -> value]
  callLog,    \* history: every invocation of an original constructor
  parseLog    \* history: every invocation of fs.Parse

vars == <<phase, given, returned, entry, group, fs, heap, args, barrier,
          parsed, released, seen, callLog, parseLog>>

----------------------------------------------------------------------------
(* Bounds *)
MaxProvides == 2   \* Provide calls per application
MaxGiven    == 3   \* values passed to Provide per application, over all calls
MaxPayload  == 2   \* tokens on the command line

----------------------------------------------------------------------------
(* Sequences helpers *)
RECURSIVE SeqsUpTo(_, _)
SeqsUpTo(S, n) ==
  IF n = 0 THEN {<<>>}
  ELSE LET shorter == SeqsUpTo(S, n - 1)
       IN shorter \cup {Append(s, x) : s \in {t \in shorter : Len(t) = n - 1}, x \in S}

Perms(S) ==
  {p \in [1..Cardinality(S) -> S] : \A i, j \in 1..Cardinality(S) : p[i] = p[j] => i = j}

EmptyMap == <<>>

\* the concatenation of a sequence of sequences
RECURSIVE Flatten(_)
Flatten(ss) == IF ss = <<>> THEN <<>> ELSE Head(ss) \o Flatten(Tail(ss))

----------------------------------------------------------------------------
(* The values an application hands to Provide.  A, B and C are functions:  *)
(*   A := func() ptr-to-a : declares string option "x", default "foo"      *)
(*   B := func() ptr-to-b : declares int option "y", default 0             *)
(*   C := func(d dep) (ptr-to-c, label) : declares nothing, keeps d in     *)
(*        its struct and returns it as the label                           *)
(* and the last one is an integer, which is not callable.                  *)
FuncNames == {"A", "B", "C"}

Constructors ==
  {[kind |-> "Func", name |-> n] : n \in FuncNames} \cup {[kind |-> "Int", name |-> "42"]}

\* reflect.ValueOf(constructor).Kind()
Kind(constructor) == constructor.kind

\* ft.NumIn() and ft.NumOut() of the three functions
NumIn(fn)  == IF fn = "C" THEN 1 ELSE 0
NumOut(fn) == IF fn = "C" THEN 2 ELSE 1

\* ft.Out(i) of the three functions: the types fn2 provides
OutTypes(fn) ==
  CASE fn = "A" -> {"*a"}
    [] fn = "B" -> {"*b"}
    [] fn = "C" -> {"*c", "label"}
    [] OTHER    -> {}

\* the option the body of each function declares: name, kind and default
Declares(fn) ==
  CASE fn = "A" -> {[name |-> "x", kind |-> "string"]}
    [] fn = "B" -> {[name |-> "y", kind |-> "int"]}
    [] OTHER    -> {}

\* the values the container can supply for C's dependency
DepValues == {101, 102}

\* the argument lists the container can call a function of this shape with
ArgLists(fn) == IF NumIn(fn) = 0 THEN {<<>>} ELSE {<<d>> : d \in DepValues}

----------------------------------------------------------------------------
(* The flag package, as far as parse and the constructors use it.          *)

\* command-line tokens and their split into option name and raw value
Tokens == {"--x=bar", "--y=5", "--y=abc", "--q=1"}

TokenName(tok) ==
  CASE tok = "--x=bar" -> "x"
    [] tok = "--y=5"   -> "y"
    [] tok = "--y=abc" -> "y"
    [] tok = "--q=1"   -> "q"

TokenValue(tok) ==
  CASE tok = "--x=bar" -> "bar"
    [] tok = "--y=5"   -> "5"
    [] tok = "--y=abc" -> "abc"
    [] tok = "--q=1"   -> "1"

\* strconv on the raw values that occur: ok is FALSE for a non-number
Atoi(raw) ==
  CASE raw = "5" -> [ok |-> TRUE, v |-> 5]
    [] raw = "1" -> [ok |-> TRUE, v |-> 1]
    [] OTHER     -> [ok |-> FALSE, v |-> 0]

Payloads == SeqsUpTo(Tokens, MaxPayload)

\* fs.StringVar / fs.IntVar: allocate nothing, bind name to the field at
\* ptr and store the default there; declaring a name twice panics.
FlagVar(f, h, ptr, name, kind, default) ==
  IF name \in DOMAIN f.formal
    THEN [fs |-> f, heap |-> h, panicked |-> TRUE]
    ELSE [fs |-> [f EXCEPT !.formal = @ @@ (name :> [ptr |-> ptr, kind |-> kind])],
          heap |-> [h EXCEPT ![ptr] = default],
          panicked |-> FALSE]

\* Value.Set of one token's raw value on the flag it names
FlagSetValue(f, h, tok) ==
  IF TokenName(tok) \notin DOMAIN f.formal
    THEN [heap |-> h, err |-> TRUE]                  \* flag provided but not defined
    ELSE LET flag == f.formal[TokenName(tok)]
         IN IF flag.kind = "string"
              THEN [heap |-> [h EXCEPT ![flag.ptr] = TokenValue(tok)], err |-> FALSE]
              ELSE IF Atoi(TokenValue(tok)).ok
                THEN [heap |-> [h EXCEPT ![flag.ptr] = Atoi(TokenValue(tok)).v], err |-> FALSE]
                ELSE [heap |-> h, err |-> TRUE]      \* invalid value for flag

\* the token loop of fs.Parse: stops at the first token that fails
RECURSIVE FlagParseFrom(_, _, _, _)
FlagParseFrom(f, h, arguments, i) ==
  IF i > Len(arguments) THEN [heap |-> h, err |-> FALSE]
  ELSE LET r == FlagSetValue(f, h, arguments[i])
       IN IF r.err THEN r ELSE FlagParseFrom(f, r.heap, arguments, i + 1)

\* fs.Parse(arguments): marks the set parsed, then runs the token loop
FlagParse(f, h, arguments) ==
  LET r == FlagParseFrom(f, h, arguments, 1)
  IN [fs |-> [f EXCEPT !.parsed = TRUE], heap |-> r.heap, err |-> r.err]


----------------------------------------------------------------------------
(* The package itself.  w is the part of the process state its functions   *)
(* read and write: [entry, fs, heap, callLog, parseLog].                   *)

\* Call dropping the captured arguments of the entry once it has used them
Call_consumeArgs(w, e, site) ==
  LET fn  == w.entry[e].fn
      in  == w.entry[e].args
      ptr == Len(w.heap) + 1
      log(outs, pan) ==
        Append(w.callLog, [e |-> e, site |-> site, args |-> in, outs |-> outs,
                           captured |-> w.entry[e].set, panicked |-> pan])
      done(f, h, outs, pan) ==
        [w |-> [w EXCEPT !.fs = f, !.heap = h, !.callLog = log(outs, pan),
                         !.entry[e].args = <<>>],
         outs |-> outs, panicked |-> pan]
  IN IF Len(in) # NumIn(fn)
       THEN done(w.fs, w.heap, <<>>, TRUE)
     ELSE IF fn = "A"
       THEN LET r == FlagVar(w.fs, Append(w.heap, ""), ptr, "x", "string", "foo")
            IN done(r.fs, r.heap, IF r.panicked THEN <<>> ELSE <<ptr>>, r.panicked)
     ELSE IF fn = "B"
       THEN LET r == FlagVar(w.fs, Append(w.heap, 0), ptr, "y", "int", 0)
            IN done(r.fs, r.heap, IF r.panicked THEN <<>> ELSE <<ptr>>, r.panicked)
     ELSE done(w.fs, Append(w.heap, in[1]), <<ptr, in[1]>>, FALSE)

\* e.fn.Call(e.args): reflect panics on a wrong argument count, otherwise
\* the body of the function runs; site names the caller for the log.
Call(w, e, site) ==
  LET fn  == w.entry[e].fn
      in  == w.entry[e].args
      ptr == Len(w.heap) + 1
      log(outs, pan) ==
        Append(w.callLog, [e |-> e, site |-> site, args |-> in, outs |-> outs,
                           captured |-> w.entry[e].set, panicked |-> pan])
      done(f, h, outs, pan) ==
        [w |-> [w EXCEPT !.fs = f, !.heap = h, !.callLog = log(outs, pan)],
         outs |-> outs, panicked |-> pan]
  IN IF Len(in) # NumIn(fn)
       THEN done(w.fs, w.heap, <<>>, TRUE)
     ELSE IF fn = "A"
       THEN LET r == FlagVar(w.fs, Append(w.heap, ""), ptr, "x", "string", "foo")
            IN done(r.fs, r.heap, IF r.panicked THEN <<>> ELSE <<ptr>>, r.panicked)
     ELSE IF fn = "B"
       THEN LET r == FlagVar(w.fs, Append(w.heap, 0), ptr, "y", "int", 0)
            IN done(r.fs, r.heap, IF r.panicked THEN <<>> ELSE <<ptr>>, r.panicked)
     ELSE done(w.fs, Append(w.heap, in[1]), <<ptr, in[1]>>, FALSE)

\* CallEntries with the first entry of the group left out
RECURSIVE CallEntries_skipFirst(_, _, _, _)
CallEntries_skipFirst(w, Entries, i, entries) ==
  IF i > Len(Entries) THEN [w |-> w, entries |-> entries, panicked |-> FALSE]
  ELSE IF i = 1 THEN CallEntries_skipFirst(w, Entries, 2, entries)
  ELSE LET c == Call(w, Entries[i], "parse")
       IN IF c.panicked
            THEN [w |-> c.w, entries |-> entries, panicked |-> TRUE]
            ELSE CallEntries_skipFirst(c.w, Entries, i + 1, (Entries[i] :> c.outs) @@ entries)

\* CallEntries storing every result under the first entry of the group
RECURSIVE CallEntries_firstKey(_, _, _, _)
CallEntries_firstKey(w, Entries, i, entries) ==
  IF i > Len(Entries) THEN [w |-> w, entries |-> entries, panicked |-> FALSE]
  ELSE LET c == Call(w, Entries[i], "parse")
       IN IF c.panicked
            THEN [w |-> c.w, entries |-> entries, panicked |-> TRUE]
            ELSE CallEntries_firstKey(c.w, Entries, i + 1, (Entries[1] :> c.outs) @@ entries)

\* the loop of parse over p.Entries, from position i on
RECURSIVE CallEntries(_, _, _, _)
CallEntries(w, Entries, i, entries) ==
  IF i > Len(Entries) THEN [w |-> w, entries |-> entries, panicked |-> FALSE]
  ELSE LET c == Call(w, Entries[i], "parse")
       IN IF c.panicked
            THEN [w |-> c.w, entries |-> entries, panicked |-> TRUE]
            ELSE CallEntries(c.w, Entries, i + 1, (Entries[i] :> c.outs) @@ entries)

\* the call fs.Parse(args) in parse, with its entry in the history
ParseArgs(w, arguments) ==
  LET r == FlagParse(w.fs, w.heap, arguments)
  IN [w |-> [w EXCEPT !.fs = r.fs, !.heap = r.heap,
                      !.parseLog = Append(@, [args |-> arguments, err |-> r.err,
                                              formal |-> DOMAIN w.fs.formal,
                                              called |-> {w.callLog[k].e : k \in 1..Len(w.callLog)}])],
      err |-> r.err]

\* a nil *parsed
NoParsed == [valid |-> FALSE, entries |-> EmptyMap]

\* parse running fs.Parse before the constructors are called
parse_parseFirst(w, arguments, Entries) ==
  LET r == IF ~w.fs.parsed THEN ParseArgs(w, arguments) ELSE [w |-> w, err |-> FALSE]
      l == CallEntries(r.w, Entries, 1, EmptyMap)
  IN IF r.err THEN [w |-> r.w, status |-> "err", parsed |-> NoParsed]
     ELSE IF l.panicked THEN [w |-> l.w, status |-> "panic", parsed |-> NoParsed]
     ELSE [w |-> l.w, status |-> "ok", parsed |-> [valid |-> TRUE, entries |-> l.entries]]

\* parse trying fs.Parse a second time when the first attempt failed
parse_retry(w, arguments, Entries) ==
  LET l == CallEntries(w, Entries, 1, EmptyMap)
      p == [valid |-> TRUE, entries |-> l.entries]
  IN IF l.panicked THEN [w |-> l.w, status |-> "panic", parsed |-> NoParsed]
     ELSE IF ~l.w.fs.parsed
       THEN LET r  == ParseArgs(l.w, arguments)
                r2 == IF r.err THEN ParseArgs(r.w, arguments) ELSE r
            IN IF r2.err THEN [w |-> r2.w, status |-> "err", parsed |-> NoParsed]
                         ELSE [w |-> r2.w, status |-> "ok", parsed |-> p]
       ELSE [w |-> l.w, status |-> "ok", parsed |-> p]

\* parse dropping the error of fs.Parse
parse_ignoreErr(w, arguments, Entries) ==
  LET l == CallEntries(w, Entries, 1, EmptyMap)
      p == [valid |-> TRUE, entries |-> l.entries]
  IN IF l.panicked THEN [w |-> l.w, status |-> "panic", parsed |-> NoParsed]
     ELSE IF ~l.w.fs.parsed
       THEN [w |-> ParseArgs(l.w, arguments).w, status |-> "ok", parsed |-> p]
       ELSE [w |-> l.w, status |-> "ok", parsed |-> p]

\* parse without the fs.Parsed() test
parse_always(w, arguments, Entries) ==
  LET l == CallEntries(w, Entries, 1, EmptyMap)
      p == [valid |-> TRUE, entries |-> l.entries]
  IN IF l.panicked THEN [w |-> l.w, status |-> "panic", parsed |-> NoParsed]
     ELSE LET r == ParseArgs(l.w, arguments)
          IN IF r.err THEN [w |-> r.w, status |-> "err", parsed |-> NoParsed]
                      ELSE [w |-> r.w, status |-> "ok", parsed |-> p]

\* parse handing fs.Parse an empty argument list instead of args
parse_noArgs(w, arguments, Entries) ==
  LET l == CallEntries(w, Entries, 1, EmptyMap)
      p == [valid |-> TRUE, entries |-> l.entries]
  IN IF l.panicked THEN [w |-> l.w, status |-> "panic", parsed |-> NoParsed]
     ELSE IF ~l.w.fs.parsed
       THEN LET r == ParseArgs(l.w, <<>>)
            IN IF r.err THEN [w |-> r.w, status |-> "err", parsed |-> NoParsed]
                        ELSE [w |-> r.w, status |-> "ok", parsed |-> p]
       ELSE [w |-> l.w, status |-> "ok", parsed |-> p]

\* parse running fs.Parse inside the loop, right after the first constructor
parse_parseInLoop(w, arguments, Entries) ==
  LET first == CallEntries(w, IF Entries = <<>> THEN <<>> ELSE <<Entries[1]>>, 1, EmptyMap)
      r     == IF ~first.panicked /\ Entries # <<>> /\ ~first.w.fs.parsed
                 THEN ParseArgs(first.w, arguments) ELSE [w |-> first.w, err |-> FALSE]
      l     == CallEntries(r.w, Entries, 2, first.entries)
  IN IF first.panicked THEN [w |-> first.w, status |-> "panic", parsed |-> NoParsed]
     ELSE IF r.err THEN [w |-> r.w, status |-> "err", parsed |-> NoParsed]
     ELSE IF l.panicked THEN [w |-> l.w, status |-> "panic", parsed |-> NoParsed]
     ELSE [w |-> l.w, status |-> "ok", parsed |-> [valid |-> TRUE, entries |-> l.entries]]

\* parse putting the flag set back as it found it when fs.Parse fails
parse_rollback(w, arguments, Entries) ==
  LET l == CallEntries(w, Entries, 1, EmptyMap)
      p == [valid |-> TRUE, entries |-> l.entries]
  IN IF l.panicked THEN [w |-> l.w, status |-> "panic", parsed |-> NoParsed]
     ELSE IF ~l.w.fs.parsed
       THEN LET r == ParseArgs(l.w, arguments)
            IN IF r.err THEN [w |-> [r.w EXCEPT !.fs = w.fs], status |-> "err",
                              parsed |-> NoParsed]
                        ELSE [w |-> r.w, status |-> "ok", parsed |-> p]
       ELSE [w |-> l.w, status |-> "ok", parsed |-> p]

\* parse(fs, args, p): status is "ok" for (parsed, nil), "err" for
\* (nil, err) and "panic" when a constructor call panicked.
parse(w, arguments, Entries) ==
  LET l == CallEntries(w, Entries, 1, EmptyMap)
      p == [valid |-> TRUE, entries |-> l.entries]
  IN IF l.panicked THEN [w |-> l.w, status |-> "panic", parsed |-> NoParsed]
     ELSE IF ~l.w.fs.parsed
       THEN LET r == ParseArgs(l.w, arguments)
            IN IF r.err THEN [w |-> r.w, status |-> "err", parsed |-> NoParsed]
                        ELSE [w |-> r.w, status |-> "ok", parsed |-> p]
       ELSE [w |-> l.w, status |-> "ok", parsed |-> p]

\* fn1 calling the original constructor itself
fn1_eager(w, e, in) ==
  [w |-> Call([w EXCEPT !.entry[e].args = in, !.entry[e].set = TRUE], e, "fn1").w, Entry |-> e]

\* fn1 of entry e: stores the arguments, returns result{Entry: e}
fn1(w, e, in) ==
  [w |-> [w EXCEPT !.entry[e].args = in, !.entry[e].set = TRUE], Entry |-> e]

\* fn2 looking up another entry of the same shape when there is one
fn2_other(e, in) ==
  IF Len(in) # 1 THEN [ret |-> <<>>, panicked |-> TRUE, parsed |-> NoParsed]
  ELSE IF ~in[1].valid THEN [ret |-> <<>>, panicked |-> TRUE, parsed |-> in[1]]
  ELSE IF e \in DOMAIN in[1].entries
    THEN LET same == {k \in DOMAIN in[1].entries :
                        k # e /\ Len(in[1].entries[k]) = Len(in[1].entries[e])}
         IN [ret |-> IF same = {} THEN in[1].entries[e]
                     ELSE in[1].entries[CHOOSE k \in same : TRUE],
             panicked |-> FALSE, parsed |-> in[1]]
    ELSE [ret |-> <<>>, panicked |-> FALSE, parsed |-> in[1]]

\* fn2 returning a zero value when its entry is missing
fn2_zeroOnMiss(e, in) ==
  IF Len(in) # 1 THEN [ret |-> <<>>, panicked |-> TRUE, parsed |-> NoParsed]
  ELSE IF ~in[1].valid THEN [ret |-> <<>>, panicked |-> TRUE, parsed |-> in[1]]
  ELSE IF e \in DOMAIN in[1].entries
    THEN [ret |-> in[1].entries[e], panicked |-> FALSE, parsed |-> in[1]]
    ELSE [ret |-> <<0>>, panicked |-> FALSE, parsed |-> in[1]]

\* fn2 deleting its entry from the map once it has read it
fn2_deleteAfterRead(e, in) ==
  IF Len(in) # 1 THEN [ret |-> <<>>, panicked |-> TRUE, parsed |-> NoParsed]
  ELSE IF ~in[1].valid THEN [ret |-> <<>>, panicked |-> TRUE, parsed |-> in[1]]
  ELSE IF e \in DOMAIN in[1].entries
    THEN [ret |-> in[1].entries[e], panicked |-> FALSE,
          parsed |-> [in[1] EXCEPT !.entries = [k \in DOMAIN in[1].entries \ {e} |-> in[1].entries[k]]]]
    ELSE [ret |-> <<>>, panicked |-> FALSE, parsed |-> in[1]]

\* fn2 of entry e, called with the argument list in: what it returns (a map
\* miss yields nil), whether it panicked, and the *parsed as it leaves it
fn2(e, in) ==
  IF Len(in) # 1 THEN [ret |-> <<>>, panicked |-> TRUE, parsed |-> NoParsed]
  ELSE IF ~in[1].valid THEN [ret |-> <<>>, panicked |-> TRUE, parsed |-> in[1]]
  ELSE IF e \in DOMAIN in[1].entries
    THEN [ret |-> in[1].entries[e], panicked |-> FALSE, parsed |-> in[1]]
    ELSE [ret |-> <<>>, panicked |-> FALSE, parsed |-> in[1]]

\* an fx.Error option and the fx.Provide(fn1, fn2) option of entry e
fxError      == [kind |-> "Error", e |-> 0]
fxProvide(e) == [kind |-> "Provide", e |-> e]

\* ProvideFrom without the test of fn.Kind()
RECURSIVE ProvideFrom_noKindCheck(_, _, _, _, _)
ProvideFrom_noKindCheck(constructors, i, opts, ents, n) ==
  IF i > Len(constructors) THEN [opts |-> opts, entry |-> ents]
  ELSE LET e == n + 1
       IN ProvideFrom_noKindCheck(constructors, i + 1, Append(opts, fxProvide(e)),
                      ents @@ (e :> [fn |-> constructors[i].name, args |-> <<>>, set |-> FALSE]),
                      n + 1)

\* ProvideFrom making no second entry for a function it has an entry for
RECURSIVE ProvideFrom_dedupe(_, _, _, _, _)
ProvideFrom_dedupe(constructors, i, opts, ents, n) ==
  IF i > Len(constructors) THEN [opts |-> opts, entry |-> ents]
  ELSE IF Kind(constructors[i]) # "Func"
    THEN [opts |-> Append(opts, fxError), entry |-> ents]
  ELSE IF \E e \in DOMAIN ents : ents[e].fn = constructors[i].name
    THEN ProvideFrom_dedupe(constructors, i + 1, opts, ents, n)
    ELSE LET e == n + 1
         IN ProvideFrom_dedupe(constructors, i + 1, Append(opts, fxProvide(e)),
                        ents @@ (e :> [fn |-> constructors[i].name, args |-> <<>>, set |-> FALSE]),
                        n + 1)

\* ProvideFrom going on with the next value after one that is no function
RECURSIVE ProvideFrom_continue(_, _, _, _, _)
ProvideFrom_continue(constructors, i, opts, ents, n) ==
  IF i > Len(constructors) THEN [opts |-> opts, entry |-> ents]
  ELSE IF Kind(constructors[i]) # "Func"
    THEN ProvideFrom_continue(constructors, i + 1, Append(opts, fxError), ents, n)
    ELSE LET e == n + 1
         IN ProvideFrom_continue(constructors, i + 1, Append(opts, fxProvide(e)),
                        ents @@ (e :> [fn |-> constructors[i].name, args |-> <<>>, set |-> FALSE]),
                        n + 1)

\* the loop of Provide over constructors, from position i on; n entries
\* exist already, so the next new entry is n + 1
RECURSIVE ProvideFrom(_, _, _, _, _)
ProvideFrom(constructors, i, opts, ents, n) ==
  IF i > Len(constructors) THEN [opts |-> opts, entry |-> ents]
  ELSE IF Kind(constructors[i]) # "Func"
    THEN [opts |-> Append(opts, fxError), entry |-> ents]
    ELSE LET e == n + 1
         IN ProvideFrom(constructors, i + 1, Append(opts, fxProvide(e)),
                        ents @@ (e :> [fn |-> constructors[i].name, args |-> <<>>, set |-> FALSE]),
                        n + 1)

Provide(constructors, n) == ProvideFrom(constructors, 1, <<>>, EmptyMap, n)

----------------------------------------------------------------------------
World == [entry |-> entry, fs |-> fs, heap |-> heap, callLog |-> callLog, parseLog |-> parseLog]

Entries == DOMAIN entry

\* the options fx.New is given by the Provide calls made so far
options == Flatten(returned)

Init ==
  /\ phase = "build"
  /\ given = <<>>
  /\ returned = <<>>
  /\ entry = EmptyMap
  /\ group = {}
  /\ fs = [formal |-> EmptyMap, parsed |-> FALSE]
  /\ heap = <<>>
  /\ args = <<>>
  /\ barrier = "idle"
  /\ parsed = NoParsed
  /\ released = EmptyMap
  /\ seen = [invoked |-> FALSE, field |-> EmptyMap]
  /\ callLog = <<>>
  /\ parseLog = <<>>

\* the application calls flagfx.Provide(constructors...)
ProvideCall(constructors) ==
  /\ phase = "build"
  /\ Len(given) < MaxProvides
  /\ Len(Flatten(given)) + Len(constructors) <= MaxGiven
  /\ LET r == Provide(constructors, Cardinality(Entries))
     IN /\ returned' = Append(returned, r.opts)
        /\ entry' = entry @@ r.entry
  /\ given' = Append(given, constructors)
  /\ UNCHANGED <<phase, group, fs, heap, args, barrier, parsed, released, seen, callLog, parseLog>>

\* the application passes flagfx.FlagSet(fs) with a flag set it has parsed already
FlagSet ==
  /\ phase = "build"
  /\ ~fs.parsed
  /\ fs' = [fs EXCEPT !.parsed = TRUE]
  /\ UNCHANGED <<phase, given, returned, entry, group, heap, args, barrier, parsed,
                 released, seen, callLog, parseLog>>

\* what makes fx.New fail before anything is resolved: an fx.Error option,
\* or two fx.Provide options whose fn2 provide the same type
Rejected(opts, ents) ==
  \/ \E k \in 1..Len(opts) : opts[k].kind = "Error"
  \/ \E j, k \in 1..Len(opts) :
        /\ j # k /\ opts[j].kind = "Provide" /\ opts[k].kind = "Provide"
        /\ OutTypes(ents[opts[j].e].fn) \cap OutTypes(ents[opts[k].e].fn) # {}

\* fx.New(flagfx.Module, options...)
New ==
  /\ phase = "build"
  /\ phase' = IF Rejected(options, entry) THEN "failed" ELSE "run"
  /\ UNCHANGED <<given, returned, entry, group, fs, heap, args, barrier, parsed, released, seen,
                 callLog, parseLog>>

\* the container calls fn1 of e with the dependencies of the constructor
Capture(e, in) ==
  /\ phase = "run"
  /\ e \in Entries \ group
  /\ LET r == fn1(World, e, in)
     IN /\ entry' = r.w.entry
        /\ fs' = r.w.fs
        /\ heap' = r.w.heap
        /\ callLog' = r.w.callLog
        /\ parseLog' = r.w.parseLog
        /\ group' = group \cup {r.Entry}
  /\ UNCHANGED <<phase, given, returned, args, barrier, parsed, released, seen>>

\* parse not tied to the group: the container may call it at any time
ParseReady_anyTime == TRUE

\* parse takes params, whose Entries is the whole group flagfx_entries: the
\* container calls it only once fn1 of every entry has returned
ParseReady == group = Entries

\* the container calls parse once every member of the group is built, with
\* the Arguments the application supplied; the order of p.Entries is the
\* container's choice
Barrier(order, arguments) ==
  /\ phase = "run"
  /\ barrier = "idle"
  /\ ParseReady
  /\ args' = arguments
  /\ LET r == parse(World, arguments, order)
     IN /\ entry' = r.w.entry
        /\ fs' = r.w.fs
        /\ heap' = r.w.heap
        /\ callLog' = r.w.callLog
        /\ parseLog' = r.w.parseLog
        /\ barrier' = r.status
        /\ parsed' = IF r.status = "ok" THEN r.parsed ELSE NoParsed
        /\ phase' = IF r.status = "panic" THEN "panicked" ELSE phase
  /\ UNCHANGED <<given, returned, group, released, seen>>

\* the container calls fn2 of e with the *parsed that parse provided; a
\* function made by reflect.MakeFunc panics when it returns the wrong
\* number of values
Release(e) ==
  /\ phase = "run"
  /\ barrier = "ok"
  /\ e \in Entries \ DOMAIN released
  /\ LET r == fn2(e, <<parsed>>)
     IN /\ parsed' = r.parsed
        /\ IF r.panicked \/ Len(r.ret) # NumOut(entry[e].fn)
             THEN phase' = "panicked" /\ released' = released
             ELSE phase' = phase /\ released' = released @@ (e :> r.ret)
  /\ UNCHANGED <<given, returned, entry, group, fs, heap, args, barrier, seen,
                 callLog, parseLog>>

\* fx.Invoke of a function that takes the first value released for every
\* entry (a pointer to a flag struct) and reads the field behind it
Invoke ==
  /\ phase = "run"
  /\ barrier = "ok"
  /\ DOMAIN released = Entries
  /\ ~seen.invoked
  /\ seen' = [invoked |-> TRUE, field |-> [e \in Entries |-> heap[released[e][1]]]]
  /\ UNCHANGED <<phase, given, returned, entry, group, fs, heap, args, barrier, parsed,
                 released, callLog, parseLog>>

\* the argument lists a Provide call is tried with
ConstructorLists == SeqsUpTo(Constructors, MaxGiven)

\* the orders in which the container may hand the group to parse
GroupOrders == IF phase = "run" /\ barrier = "idle" /\ ParseReady THEN Perms(group) ELSE {}

Next ==
  \/ \E constructors \in ConstructorLists : ProvideCall(constructors)
  \/ FlagSet
  \/ New
  \/ \E e \in Entries : \E in \in ArgLists(entry[e].fn) : Capture(e, in)
  \/ \E order \in GroupOrders : \E arguments \in Payloads : Barrier(order, arguments)
  \/ \E e \in Entries : Release(e)
  \/ Invoke

Spec == Init /\ [][Next]_vars

\* f without the keys in drop
Without(f, drop) == [k \in DOMAIN f \ drop |-> f[k]]

\* fn2 on its own: parse has returned for a group of captured entries, and
\* the *parsed handed to fn2 lacks any subset of them
InitLookup ==
  \E constructors \in ConstructorLists, d \in DepValues, arguments \in Payloads :
    LET r0 == Provide(constructors, 0)
        w0 == [entry    |-> [e \in DOMAIN r0.entry |->
                               [fn   |-> r0.entry[e].fn,
                                args |-> IF NumIn(r0.entry[e].fn) = 0 THEN <<>> ELSE <<d>>,
                                set  |-> TRUE]],
               fs       |-> [formal |-> EmptyMap, parsed |-> FALSE],
               heap     |-> <<>>,
               callLog  |-> <<>>,
               parseLog |-> <<>>]
    IN /\ ~Rejected(r0.opts, r0.entry)
       /\ \E order \in Perms(DOMAIN r0.entry), drop \in SUBSET DOMAIN r0.entry :
            LET r == parse(w0, arguments, order)
            IN /\ r.status = "ok"
               /\ phase = "run"
               /\ given = <<constructors>>
               /\ returned = <<r0.opts>>
               /\ entry = r.w.entry
               /\ group = DOMAIN r0.entry
               /\ fs = r.w.fs
               /\ heap = r.w.heap
               /\ args = arguments
               /\ barrier = "ok"
               /\ parsed = [valid |-> TRUE, entries |-> Without(r.parsed.entries, drop)]
               /\ released = EmptyMap
               /\ seen = [invoked |-> FALSE, field |-> EmptyMap]
               /\ callLog = r.w.callLog
               /\ parseLog = r.w.parseLog

NextLookup ==
  \/ \E e \in Entries : Release(e)
  \/ Invoke

SpecLookup == InitLookup /\ [][NextLookup]_vars

TypeOK ==
  /\ phase \in {"build", "run", "failed", "panicked"}
  /\ barrier \in {"idle", "ok", "err", "panic"}
  /\ Len(given) = Len(returned) /\ Len(given) <= MaxProvides
  /\ group \subseteq Entries
  /\ DOMAIN seen.field \subseteq DOMAIN released

----------------------------------------------------------------------------
(* Properties *)

\* the positions in the history at which the constructor of e was invoked
CallsOf(e) == {k \in 1..Len(callLog) : callLog[k].e = e}

\* the entries made from function fn
EntriesOf(fn) == {e \in Entries : entry[e].fn = fn}

\* the options the constructors of a set of entries declare
DeclaredBy(S) == UNION {{d.name : d \in Declares(entry[e].fn)} : e \in S}

\* C1: the original constructor of an entry is invoked only by parse, never
\* by fn1 or fn2, and only after fn1 of the entry has stored its arguments
\* in e.args: every invocation was made by parse, on an entry whose fn1 had
\* run, with exactly the arguments fn1 stored.
C1_ConstructorOnlyInBarrier ==
  \A k \in 1..Len(callLog) :
    /\ callLog[k].site = "parse"
    /\ callLog[k].captured
    /\ callLog[k].e \in group
    /\ callLog[k].args = entry[callLog[k].e].args

C1_Witness ==
  \E k \in 1..Len(callLog) :
    /\ callLog[k].site = "parse"
    /\ callLog[k].args \in {<<d>> : d \in DepValues}
    /\ Len(callLog) >= 2

\* C2: every registered constructor runs exactly once per resolution: never
\* more than once, once parse has returned exactly once for every entry
\* (for any number of entries, none included), only after fn1 of the entry
\* has run, and before fn2 of the entry has returned.
C2_ExactlyOnce ==
  /\ \A e \in Entries : Cardinality(CallsOf(e)) <= 1
  /\ barrier \in {"ok", "err"} => \A e \in Entries : Cardinality(CallsOf(e)) = 1
  /\ \A e \in Entries : CallsOf(e) # {} => e \in group /\ entry[e].set
  /\ \A e \in DOMAIN released : Cardinality(CallsOf(e)) = 1
  /\ Len(callLog) <= Cardinality(Entries)

C2_Witness ==
  /\ barrier = "ok"
  /\ Cardinality(Entries) = 3
  /\ DOMAIN released = Entries
  /\ \A e \in Entries : Cardinality(CallsOf(e)) = 1

\* C3: fn2 of an entry has returned only if parse has returned a *parsed
\* without error and that *parsed holds, under the entry, the values the
\* constructor of the entry returned.
C3_ReleaseAfterBarrier ==
  \A e \in DOMAIN released :
    /\ barrier = "ok"
    /\ parsed.valid
    /\ e \in DOMAIN parsed.entries
    /\ \E k \in CallsOf(e) : ~callLog[k].panicked /\ parsed.entries[e] = callLog[k].outs

C3_Witness ==
  /\ Cardinality(Entries) >= 2
  /\ \E e \in DOMAIN released : e \in DOMAIN parsed.entries
  /\ DOMAIN released # Entries

C5_ActionAtMostOnce == Len(parseLog) <= 1

C5_Witness ==
  /\ Len(parseLog) = 1
  /\ Cardinality(Entries) = 3
  /\ barrier = "ok"

\* C6: when fs.Parse fails, parse returns an error and no *parsed, and no
\* fn2 of any entry ever returns a value, nor does a consumer run.
C6_FailureReleasesNothing ==
  (\E k \in 1..Len(parseLog) : parseLog[k].err) =>
    /\ barrier = "err"
    /\ ~parsed.valid
    /\ DOMAIN released = {}
    /\ ~seen.invoked

C6_Witness ==
  /\ barrier = "err"
  /\ args = <<"--x=bar", "--q=1">>
  /\ EntriesOf("A") # {} /\ EntriesOf("C") # {}
  /\ DOMAIN released = {}

\* C7: when the flag set is already parsed as parse starts, parse does not
\* call fs.Parse, invokes the constructor of every entry once, and returns
\* a *parsed that maps every entry to what its constructor returned.
C7_AlreadyParsed ==
  [][(fs.parsed /\ barrier = "idle" /\ barrier' # "idle") =>
       /\ parseLog' = parseLog
       /\ barrier' = "ok"
       /\ parsed'.valid
       /\ DOMAIN parsed'.entries = Entries
       /\ \A e \in Entries :
            /\ Cardinality({k \in 1..Len(callLog') : callLog'[k].e = e}) = 1
            /\ \E k \in 1..Len(callLog') :
                 callLog'[k].e = e /\ callLog'[k].outs = parsed'.entries[e]]_vars

C7_Witness ==
  /\ fs.parsed
  /\ parseLog = <<>>
  /\ barrier = "ok"
  /\ Cardinality(Entries) >= 2
  /\ DOMAIN parsed.entries = Entries

\* C8: the values fn2 of an entry returns are, element for element and in
\* the same order, the values the constructor of the entry returned when
\* invoked with the arguments fn1 captured; fn2 of different entries return
\* different values.
C8_RoundTrip ==
  /\ \A e \in DOMAIN released :
       /\ \E k \in CallsOf(e) :
            /\ callLog[k].args = entry[e].args
            /\ released[e] = callLog[k].outs
       /\ Len(released[e]) = NumOut(entry[e].fn)
       /\ entry[e].fn = "C" =>
            /\ released[e][2] = entry[e].args[1]
            /\ heap[released[e][1]] = entry[e].args[1]
  /\ \A e1, e2 \in DOMAIN released : e1 # e2 => released[e1][1] # released[e2][1]

C8_Witness ==
  /\ EntriesOf("C") # {} /\ EntriesOf("C") \subseteq DOMAIN released
  /\ Cardinality(DOMAIN released) = 3

\* the positions in the argument list of call c that hold no function
NonFuncs(c) == {i \in 1..Len(given[c]) : Kind(given[c][i]) # "Func"}

\* the error options and the fx.Provide options call c returned
ErrorOptions(c) == {k \in 1..Len(returned[c]) : returned[c][k].kind = "Error"}

ProvideOptions(c) == {k \in 1..Len(returned[c]) : returned[c][k].kind = "Provide"}

\* C9: a value that is not a function makes the Provide call it is passed to
\* return an error option; no entry, fn1 or fn2 is made for it, and with the
\* error option in place nothing is resolved: no fn1 runs and parse is
\* never called.
C9_NonCallableRejected ==
  /\ \A e \in Entries : entry[e].fn \in FuncNames
  /\ \A c \in 1..Len(given) :
       /\ Cardinality(ProvideOptions(c)) <= Len(given[c]) - Cardinality(NonFuncs(c))
       /\ NonFuncs(c) # {} =>
            /\ ErrorOptions(c) # {}
            /\ phase \in {"build", "failed"}
            /\ group = {} /\ barrier = "idle" /\ callLog = <<>> /\ parseLog = <<>>
            /\ DOMAIN released = {}
  /\ Cardinality(Entries) = Cardinality({k \in 1..Len(options) : options[k].kind = "Provide"})

C9_Witness ==
  /\ phase = "failed"
  /\ Entries # {}
  /\ \E c \in 1..Len(given) : NonFuncs(c) # {} /\ ErrorOptions(c) # {} /\ ProvideOptions(c) # {}

\* the value of option name after parsing arguments: the converted value of
\* its last token, or the default when no token names it
PayloadValue(name, kind, default, arguments) ==
  LET occ == {i \in 1..Len(arguments) : TokenName(arguments[i]) = name}
  IN IF occ = {} THEN default
     ELSE LET last == CHOOSE i \in occ : \A j \in occ : j <= i
          IN IF kind = "string" THEN TokenValue(arguments[last])
             ELSE Atoi(TokenValue(arguments[last])).v

\* the field behind the struct released for e
Field(e) == heap[released[e][1]]

\* C10 as stated: after a successful resolution the struct released for A
\* holds the payload's value of "x" or the default "foo", and the struct
\* released for B the payload's value of "y" or the default 0.
C10_PayloadOrDefault ==
  barrier = "ok" =>
    /\ \A e \in DOMAIN released \cap EntriesOf("A") :
         Field(e) = PayloadValue("x", "string", "foo", args)
    /\ \A e \in DOMAIN released \cap EntriesOf("B") :
         Field(e) = PayloadValue("y", "int", 0, args)

\* C10 amended: the same when parse itself called fs.Parse on the payload;
\* when the flag set was parsed already, the structs hold the defaults.
C10_PayloadOrDefaultWhenParsedHere ==
  barrier = "ok" =>
    /\ \A e \in DOMAIN released \cap EntriesOf("A") :
         Field(e) = IF parseLog # <<>> THEN PayloadValue("x", "string", "foo", args) ELSE "foo"
    /\ \A e \in DOMAIN released \cap EntriesOf("B") :
         Field(e) = IF parseLog # <<>> THEN PayloadValue("y", "int", 0, args) ELSE 0
    /\ seen.invoked => \A e \in Entries : seen.field[e] = Field(e)

\* Scenario A
C10_Witness ==
  /\ barrier = "ok"
  /\ parseLog # <<>>
  /\ args = <<"--x=bar">>
  /\ \E a \in DOMAIN released \cap EntriesOf("A") : Field(a) = "bar"
  /\ \E b \in DOMAIN released \cap EntriesOf("B") : Field(b) = 0


\* what the values returned for an entry show to their consumer: the field
\* behind the pointer that comes first, then the remaining values
View(h, outs) == <<h[outs[1]]>> \o Tail(outs)

\* what a call of parse delivers: its status and the view of every entry
Delivered(r) ==
  [status |-> r.status,
   view   |-> [e \in DOMAIN r.parsed.entries |-> View(r.w.heap, r.parsed.entries[e])]]

\* what the constructor of an entry made from fn with captured arguments in
\* shows once arguments were parsed (here says whether parse did so itself)
ExpectedView(fn, in, arguments, here) ==
  CASE fn = "A" -> <<IF here THEN PayloadValue("x", "string", "foo", arguments) ELSE "foo">>
    [] fn = "B" -> <<IF here THEN PayloadValue("y", "int", 0, arguments) ELSE 0>>
    [] fn = "C" -> <<in[1], in[1]>>

\* C11: the order in which the entries were registered and the order in
\* which parse iterates them do not change what fn2 returns: with every
\* entry captured, parse delivers the same for any two orders of the group
\* and any payload, and what is released for an entry depends on its own
\* function and captured arguments only.
C11_OrderIndependent ==
  /\ (phase = "run" /\ barrier = "idle" /\ group = Entries) =>
       \A arguments \in Payloads : \A p, q \in Perms(group) :
         Delivered(parse(World, arguments, p)) = Delivered(parse(World, arguments, q))
  /\ \A e \in DOMAIN released :
       View(heap, released[e]) =
         ExpectedView(entry[e].fn, entry[e].args, args, parseLog # <<>>)

C11_Witness ==
  /\ barrier = "ok"
  /\ Cardinality(Entries) = 3
  /\ DOMAIN released = Entries
  /\ callLog[1].e = 3 /\ callLog[3].e = 1
  /\ entry[1].fn = "B" /\ entry[3].fn = "A"
  /\ args = <<"--x=bar">> /\ parseLog # <<>>


\* the entries the *parsed handed to fn2 does not hold
Absent == Entries \ DOMAIN parsed.entries

\* C12: when the entry of an fn2 is missing from the *parsed, the call
\* aborts the process; fn2 never returns values for a missing entry.
C12_AbsentEntryAborts ==
  [][\A e \in Absent :
       /\ e \notin DOMAIN released /\ e \notin DOMAIN released'
       /\ Release(e) => phase' = "panicked"]_vars

C12_Witness ==
  /\ phase = "panicked"
  /\ Absent # {}
  /\ DOMAIN released # {}
  /\ DOMAIN released \cap Absent = {}


\* C13: e.args is written once, by fn1 of the entry, and by nothing else:
\* it changes only in the step in which fn1 of the entry runs, an entry
\* whose fn1 has run keeps its arguments for good, and the arguments parse
\* passes to the constructor are the ones fn1 stored.
C13_ArgsWriteOnce ==
  [][\A e \in Entries :
       /\ entry'[e].fn = entry[e].fn
       /\ entry[e].set => entry'[e] = entry[e]
       /\ entry'[e] # entry[e] =>
            /\ e \notin group /\ e \in group'
            /\ ~entry[e].set /\ entry'[e].set
            /\ barrier = "idle" /\ barrier' = "idle"
       /\ \A k \in 1..Len(callLog') :
            callLog'[k].e = e => callLog'[k].args = entry'[e].args /\ entry[e].set]_vars

C13_Witness ==
  /\ \E e \in EntriesOf("C") : entry[e].set /\ entry[e].args = <<102>> /\ e \in DOMAIN released
  /\ seen.invoked


\* C14: the *parsed is made once, by parse, and never written afterwards:
\* the only step that changes it is the one in which parse returns it, no
\* call of fn2 changes it, and every fn2 has returned what the map holds
\* under its entry, in whatever order the fn2 ran.
C14_ParsedImmutable ==
  [][/\ parsed' # parsed =>
          /\ barrier = "idle" /\ barrier' = "ok"
          /\ ~parsed.valid /\ parsed'.valid
          /\ DOMAIN released' = {}
     /\ barrier # "idle" => parsed' = parsed /\ heap' = heap
     /\ \A e \in DOMAIN released' :
          e \in DOMAIN parsed'.entries /\ released'[e] = parsed'.entries[e]]_vars

C14_Witness ==
  /\ parsed.valid
  /\ Cardinality(DOMAIN parsed.entries) = 3
  /\ Cardinality(DOMAIN released) = 2
  /\ 1 \notin DOMAIN released


\* C15: the stages of a resolution follow one another: fn1 runs only while
\* parse has not started, parse starts only when fn1 of every entry has
\* returned, its constructor calls and its fs.Parse all happen in the one
\* step in which it runs, with no fn1 or fn2 in that step, and fn2 runs only
\* after parse has returned.
C15_StagesSequential ==
  [][/\ group' # group => barrier = "idle" /\ barrier' = "idle"
     /\ (barrier = "idle" /\ barrier' # "idle") =>
          /\ group = Entries /\ group' = group
          /\ released' = released /\ seen' = seen
          /\ barrier' \in {"ok", "err"} =>
               {callLog'[k].e : k \in 1..Len(callLog')} = Entries
     /\ (callLog' # callLog \/ parseLog' # parseLog) => barrier = "idle" /\ barrier' # "idle"
     /\ released' # released =>
          /\ barrier = "ok" /\ barrier' = "ok"
          /\ group' = group /\ callLog' = callLog /\ parseLog' = parseLog]_vars

C15_Witness ==
  /\ group = Entries /\ Cardinality(Entries) = 3
  /\ barrier = "ok"
  /\ Len(callLog) = 3 /\ Len(parseLog) = 1
  /\ Cardinality(DOMAIN released) = 1


\* the number of values at the head of the argument list of call c that
\* Provide gets to: all of them, or those before the first that is no function
PrefixLen(c) ==
  IF NonFuncs(c) = {} THEN Len(given[c])
  ELSE (CHOOSE i \in NonFuncs(c) : \A j \in NonFuncs(c) : i <= j) - 1

\* the places (call, position) at which function fn was passed and reached
PlacesOf(fn) ==
  {<<c, i>> \in (1..Len(given)) \X (1..MaxGiven + 1) :
     i <= PrefixLen(c) /\ given[c][i].name = fn}

\* C16: every function Provide gets to has an entry of its own, also when
\* the same function is passed several times: there are as many entries of
\* a function as places it was passed at, every entry has its own
\* fx.Provide option (its fn1 and fn2), and when parse runs it is handed as
\* many entries as functions were passed to Provide.
C16_EntryPerRegistration ==
  /\ \A fn \in FuncNames : Cardinality(EntriesOf(fn)) = Cardinality(PlacesOf(fn))
  /\ \A c \in 1..Len(given) : Cardinality(ProvideOptions(c)) = PrefixLen(c)
  /\ \A j, k \in 1..Len(options) :
       (j # k /\ options[j].kind = "Provide" /\ options[k].kind = "Provide")
         => options[j].e # options[k].e
  /\ \A k \in 1..Len(options) : options[k].kind = "Provide" => options[k].e \in Entries
  /\ barrier # "idle" =>
       /\ Cardinality(group) = Len(Flatten(given))
       /\ \A i \in 1..Len(Flatten(given)) : Kind(Flatten(given)[i]) = "Func"
       /\ barrier \in {"ok", "err"} => Len(callLog) = Len(Flatten(given))

C16_Witness ==
  /\ Len(given) = 2
  /\ Cardinality(EntriesOf("A")) = 2
  /\ Cardinality(PlacesOf("A")) = 2
  /\ Cardinality(Entries) = 3
  /\ \A c \in 1..Len(given) : NonFuncs(c) = {}


\* C17: when the first value of a Provide call that is no function is at
\* position i, the call returns i options: an fx.Provide option with a new
\* entry for each of the i - 1 functions before it, in order, then exactly
\* one error option; nothing is made for the values after position i,
\* functions or not.
C17_StopsAtFirstNonFunc ==
  \A c \in 1..Len(given) :
    NonFuncs(c) # {} =>
      /\ Len(returned[c]) = PrefixLen(c) + 1
      /\ \A k \in 1..PrefixLen(c) :
           /\ returned[c][k].kind = "Provide"
           /\ returned[c][k].e \in Entries
           /\ entry[returned[c][k].e].fn = given[c][k].name
           /\ \A j \in 1..PrefixLen(c) : j # k => returned[c][j].e # returned[c][k].e
      /\ returned[c][PrefixLen(c) + 1].kind = "Error"
      /\ Cardinality(ErrorOptions(c)) = 1
      /\ Cardinality(Entries) <= Len(Flatten(given)) - (Len(given[c]) - PrefixLen(c))

C17_Witness ==
  \E c \in 1..Len(given) :
    /\ Len(given[c]) = 3
    /\ Kind(given[c][1]) = "Func" /\ Kind(given[c][2]) # "Func" /\ Kind(given[c][3]) = "Func"
    /\ Len(returned[c]) = 2
    /\ Cardinality(Entries) = 1


====
